---- MODULE Spec2Model ----
(***************************************************************************)
(* A model of src/server.ts: the WebSocket relay between a client and the  *)
(* Deepgram live-transcription API (token gate, upstream URL builder,      *)
(* per-connection relay handlers, connection registry, graceful shutdown). *)
(*                                                                         *)
(* Strings that the code takes apart (the Sec-WebSocket-Protocol header)   *)
(* are sequences of one-character strings, so that split, trim, startsWith *)
(* and slice are computed as the code computes them.  Strings the code     *)
(* only passes along (parameter values, frames, close reasons) are TLA+    *)
(* strings.  A URLSearchParams object is the sequence of its <<name,       *)
(* value>> pairs.  A value that may be null is a sequence of length 0      *)
(* (null) or 1.                                                            *)
(***************************************************************************)
EXTENDS Integers, Sequences, FiniteSets, TLC

\* ------------------------------------------------------------------ bounds
\* Number of client connection attempts (one per session identifier) of the relay.
NumSessions == 2
\* Total number of frames (both directions, all sessions) in one behaviour.
MaxMsgs == 2
\* Longest client query string, in parameters, that the URL builder is fed.
MaxParams == 3

\* Number of sessions whose frames are followed.
FrameSessions == 1
\* Number of sessions of the shutdown scenario.
ShutdownSessions == 3
\* Longest Sec-WebSocket-Protocol header, in entries, that the token gate is fed.
MaxEntries == 2

Sessions == 1..NumSessions
Largest(a, b) == IF a > b THEN a ELSE b
MaxSessions == Largest(Largest(NumSessions, FrameSessions), ShutdownSessions)
AllSessions == 1..MaxSessions
ConnIds == 1..MaxSessions
Frames == {"f1", "f2"}

\* ------------------------------------------------------- program constants
\* deepgramWs.close(1000, "Client disconnected")
NormalClosure == 1000
\* ws.close(1011, "Deepgram connection error")
InternalError == 1011
Unauthorized == 401
UpgradeFailed == 400
\* Bun answers a successful server.upgrade() itself: 101 Switching Protocols.
SwitchingProtocols == 101

CONFIG ==
  [deepgramApiKey |-> "DEEPGRAM_API_KEY", deepgramSttUrl |-> "wss://api.deepgram.com/v1/listen"]

\* ----------------------------------------------------- character sequences
Prefix == <<"a", "c", "c", "e", "s", "s", "_", "t", "o", "k", "e", "n", ".">>

\* String.prototype.startsWith
StartsWith(str, pre) ==
  /\ Len(str) >= Len(pre)
  /\ SubSeq(str, 1, Len(pre)) = pre

\* String.prototype.slice(n), 0 <= n
Slice(str, n) == SubSeq(str, n + 1, Len(str))

\* The characters String.prototype.trim removes: the white space and the
\* line terminators of ECMAScript.  A character that a string of this module
\* cannot hold is written as its code point.
WhiteSpace ==
  { " ", "\t", "\n", "\r", "\f", "U+000B", "U+00A0", "U+FEFF", "U+1680", "U+2000", "U+2001",
    "U+2002", "U+2003", "U+2004", "U+2005", "U+2006", "U+2007", "U+2008", "U+2009", "U+200A",
    "U+2028", "U+2029", "U+202F", "U+205F", "U+3000" }

IsSpace(ch) == ch \in WhiteSpace

RECURSIVE TrimStart(_)
TrimStart(str) ==
  IF str # <<>> /\ IsSpace(Head(str)) THEN TrimStart(Tail(str)) ELSE str

RECURSIVE TrimEnd(_)
TrimEnd(str) ==
  IF str # <<>> /\ IsSpace(str[Len(str)])
  THEN TrimEnd(SubSeq(str, 1, Len(str) - 1))
  ELSE str

\* String.prototype.trim
Trim(str) == TrimEnd(TrimStart(str))

\* String.prototype.split(","): the pieces between the commas; a string with
\* no comma (the empty string too) gives one piece.
RECURSIVE SplitFrom(_, _, _)
SplitFrom(str, i, cur) ==
  IF i > Len(str) THEN <<cur>>
  ELSE IF str[i] = "," THEN <<cur>> \o SplitFrom(str, i + 1, <<>>)
  ELSE SplitFrom(str, i + 1, Append(cur, str[i]))

Split(str) == SplitFrom(str, 1, <<>>)

\* Array.prototype.find with p.startsWith("access_token."): the first match,
\* <<>> for undefined.
RECURSIVE FindTokenProto(_)
FindTokenProto(list) ==
  IF list = <<>> THEN <<>>
  ELSE IF StartsWith(Head(list), Prefix) THEN <<Head(list)>>
  ELSE FindTokenProto(Tail(list))

\* jwt.verify(token, SESSION_SECRET) returns (TRUE) or throws (FALSE).  The
\* credentials that carry a good signature and have not expired: "v" and "w";
\* "x" has a bad signature, "e" has expired, the empty token is malformed.
VerifiedTokens == {<<"v">>, <<"w">>}

JwtVerify(token) == token \in VerifiedTokens

\* The validator without its jwt.verify step.
validateWsTokenNoVerify(protocols) ==
  IF ~protocols.present \/ protocols.value = <<>> THEN <<>>
  ELSE LET list == [i \in 1..Len(Split(protocols.value)) |-> Trim(Split(protocols.value)[i])]
       IN FindTokenProto(list)

\* The first entry whose credential verifies, <<>> if there is none.
RECURSIVE FindVerifiedProto(_)
FindVerifiedProto(list) ==
  IF list = <<>> THEN <<>>
  ELSE IF StartsWith(Head(list), Prefix) /\ JwtVerify(Slice(Head(list), Len(Prefix)))
  THEN <<Head(list)>>
  ELSE FindVerifiedProto(Tail(list))

\* A validator that goes on to the later entries when the first fails.
validateWsTokenAnyVerified(protocols) ==
  IF ~protocols.present \/ protocols.value = <<>> THEN <<>>
  ELSE LET list == [i \in 1..Len(Split(protocols.value)) |-> Trim(Split(protocols.value)[i])]
       IN FindVerifiedProto(list)

\* validateWsToken(protocols).  A header is [present |-> BOOLEAN, value |->
\* characters]: req.headers.get gives null for an absent header, and !protocols
\* holds of null and of the empty string.  The result is <<>> for null, else
\* <<tokenProto>>.
validateWsToken(protocols) ==
  IF ~protocols.present \/ protocols.value = <<>> THEN <<>>
  ELSE LET list == [i \in 1..Len(Split(protocols.value)) |-> Trim(Split(protocols.value)[i])]
           tokenProto == FindTokenProto(list)
       IN IF tokenProto = <<>> THEN <<>>
          ELSE LET token == Slice(tokenProto[1], Len(Prefix))
               IN IF JwtVerify(token) THEN tokenProto ELSE <<>>

\* ------------------------------------------------------------ URL builder
\* URLSearchParams.get: the first value of the name, <<>> for null.
RECURSIVE ParamsGet(_, _)
ParamsGet(params, name) ==
  IF params = <<>> THEN <<>>
  ELSE IF Head(params)[1] = name THEN <<Head(params)[2]>>
  ELSE ParamsGet(Tail(params), name)

HasParam(params, name) == \E i \in 1..Len(params) : params[i][1] = name

\* URLSearchParams.set: the first pair of the name takes the value and the
\* other pairs of the name go; a new name is appended.
ParamsSet(params, name, value) ==
  IF HasParam(params, name)
  THEN LET first == CHOOSE i \in 1..Len(params) :
                      /\ params[i][1] = name
                      /\ \A j \in 1..(i - 1) : params[j][1] # name
           kept == SelectSeq([i \in 1..Len(params) |-> <<i, params[i]>>],
                             LAMBDA e : e[2][1] # name \/ e[1] = first)
       IN [i \in 1..Len(kept) |-> IF kept[i][1] = first THEN <<name, value>> ELSE kept[i][2]]
  ELSE Append(params, <<name, value>>)

\* Without the default: queryParams.get(name) || "".
OrDefaultForgotten(opt, default) == IF opt = <<>> THEN "" ELSE opt[1]

\* Without the client's value: the default always.
OrDefaultAlways(opt, default) == default

\* a || b on a nullable string a: null and "" are falsy.
OrDefault(opt, default) == IF opt = <<>> \/ opt[1] = "" THEN default ELSE opt[1]

\* With a truthiness test in place of the null test: if (v) ...
SetIfPresentTruthy(params, name, opt) ==
  IF opt # <<>> /\ opt[1] # "" THEN ParamsSet(params, name, opt[1]) ELSE params

\* if (v !== null) searchParams.set(name, v)
SetIfPresent(params, name, opt) ==
  IF opt # <<>> THEN ParamsSet(params, name, opt[1]) ELSE params

\* The URL is its endpoint and the list of its search parameters, in the
\* order toString() writes them.
buildDeepgramUrl(queryParams) ==
  LET p0 == ParamsSet(<<>>, "token", CONFIG.deepgramApiKey)
      p1 == ParamsSet(p0, "model", OrDefault(ParamsGet(queryParams, "model"), "nova-3"))
      p2 == ParamsSet(p1, "language", OrDefault(ParamsGet(queryParams, "language"), "en"))
      p3 == ParamsSet(p2, "encoding", OrDefault(ParamsGet(queryParams, "encoding"), "linear16"))
      p4 == ParamsSet(p3, "sample_rate", OrDefault(ParamsGet(queryParams, "sample_rate"), "16000"))
      p5 == ParamsSet(p4, "channels", OrDefault(ParamsGet(queryParams, "channels"), "1"))
      p6 == ParamsSet(p5, "smart_format", OrDefault(ParamsGet(queryParams, "smart_format"), "true"))
      punctuate == ParamsGet(queryParams, "punctuate")
      diarize == ParamsGet(queryParams, "diarize")
      fillerWords == ParamsGet(queryParams, "filler_words")
      p7 == SetIfPresent(p6, "punctuate", punctuate)
      p8 == SetIfPresent(p7, "diarize", diarize)
      p9 == SetIfPresent(p8, "filler_words", fillerWords)
  IN [endpoint |-> CONFIG.deepgramSttUrl, searchParams |-> p9]

\* ---------------------------------------------------------------- state
VARIABLES
  running,            \* the process has not called process.exit
  exitCode,           \* <<>> until process.exit(code), then <<code>>
  request,            \* per session: <<>> or <<[header, query]>>, the upgrade request received
  response,           \* per session: <<>> or <<[status, proto]>>, the answer to the upgrade request
  client,             \* per session: the client channel ws: "none", "upgraded", "open", "closed"
  wsData,             \* per session: ws.data = [queryParams, deepgramWs], deepgramWs 0 for null
  clientClose,        \* per session: the code and reason of the ws.close calls that closed
                      \* the client channel
  clientFrame,        \* per session: the close frames those calls put on the client channel
  clientRecv,         \* per session: the frames ws.send put on the client channel
  activeConnections,  \* the registry: the set of registered ws
  conns,              \* per upstream connection: owner, url, readyState, sent, closeReqs,
                      \* errPending (an error fired, its close event is due), closeFrame
                      \* (the upstream's close frame has arrived), failed (the handshake
                      \* failed and the platform left the connection CONNECTING)
  nextConn,           \* the number of upstream connections created so far
  clientLog,          \* per session: every client frame handled, with the session state it met
  upstreamLog,        \* per connection: every upstream frame handled, with the session state it met
  clientClosedIn,     \* per session: the session state in which the client close handler ran
  dgErrorIn,          \* per connection: the session state in which the error listener ran
  dgCloseEvent,       \* per connection: <<>> or <<[code, reason, clientOpen]>>, the close event
  shutdown            \* <<>> or <<[signal, registered, active, failing]>>, the shutdown issued

vars ==
  <<running, exitCode, request, response, client, wsData, clientClose, clientFrame,
    clientRecv, activeConnections, conns, nextConn, clientLog, upstreamLog, clientClosedIn,
    dgErrorIn, dgCloseEvent, shutdown>>

NoConn ==
  [owner |-> 0, url |-> [endpoint |-> "", searchParams |-> <<>>], readyState |-> "NONE",
   sent |-> <<>>, closeReqs |-> <<>>, errPending |-> FALSE, closeFrame |-> FALSE,
   failed |-> FALSE]

Init ==
  /\ running = TRUE
  /\ exitCode = <<>>
  /\ request = [s \in AllSessions |-> <<>>]
  /\ response = [s \in AllSessions |-> <<>>]
  /\ client = [s \in AllSessions |-> "none"]
  /\ wsData = [s \in AllSessions |-> [queryParams |-> <<>>, deepgramWs |-> 0]]
  /\ clientClose = [s \in AllSessions |-> <<>>]
  /\ clientFrame = [s \in AllSessions |-> <<>>]
  /\ clientRecv = [s \in AllSessions |-> <<>>]
  /\ activeConnections = {}
  /\ conns = [c \in ConnIds |-> NoConn]
  /\ nextConn = 0
  /\ clientLog = [s \in AllSessions |-> <<>>]
  /\ upstreamLog = [c \in ConnIds |-> <<>>]
  /\ clientClosedIn = [s \in AllSessions |-> "NONE"]
  /\ dgErrorIn = [c \in ConnIds |-> "NONE"]
  /\ dgCloseEvent = [c \in ConnIds |-> <<>>]
  /\ shutdown = <<>>

\* The state of section 4.3 that a session is in, read off the two channels.
SessionStateOf(cl, rs) ==
  IF cl \in {"none", "upgraded"} THEN "NONE"
  ELSE IF cl = "open" /\ rs = "CONNECTING" THEN "OPENING"
  ELSE IF cl = "open" /\ rs = "OPEN" THEN "ACTIVE"
  ELSE IF cl = "closed" /\ rs = "CLOSED" THEN "CLOSED"
  ELSE "CLOSING"

\* deepgramWs.readyState as the handlers read it; NONE before websocket.open.
ReadyStateOf(cs, dg) == IF dg = 0 THEN "NONE" ELSE cs[dg].readyState

SessionState(s) == SessionStateOf(client[s], ReadyStateOf(conns, wsData[s].deepgramWs))

RECURSIVE SumLen(_, _)
SumLen(f, n) == IF n = 0 THEN 0 ELSE Len(f[n]) + SumLen(f, n - 1)

TotalMsgs == SumLen(clientLog, MaxSessions) + SumLen(upstreamLog, MaxSessions)

\* ----------------------------------------------------------- operations
\* fetch(req, server), the branch of /api/live-transcription.  `upgradable`
\* is server.upgrade's answer for a request that passed the token gate.
Fetch(s, header, query, upgradable) ==
  /\ running
  /\ request[s] = <<>>
  /\ request' = [request EXCEPT ![s] = <<[header |-> header, query |-> query]>>]
  /\ LET validProto == validateWsToken(header)
     IN IF validProto = <<>>
        THEN /\ response' = [response EXCEPT ![s] = <<[status |-> Unauthorized, proto |-> <<>>]>>]
             /\ UNCHANGED <<client, wsData>>
        ELSE IF ~upgradable
        THEN /\ response' = [response EXCEPT ![s] = <<[status |-> UpgradeFailed, proto |-> <<>>]>>]
             /\ UNCHANGED <<client, wsData>>
        ELSE /\ response' = [response EXCEPT ![s] =
                               <<[status |-> SwitchingProtocols, proto |-> validProto[1]]>>]
             /\ client' = [client EXCEPT ![s] = "upgraded"]
             /\ wsData' = [wsData EXCEPT ![s] = [queryParams |-> query, deepgramWs |-> 0]]
  /\ UNCHANGED <<running, exitCode, clientClose, clientFrame, clientRecv, activeConnections, conns, nextConn,
                 clientLog, upstreamLog, clientClosedIn, dgErrorIn, dgCloseEvent, shutdown>>

\* A connection pool: the first connection made serves the later sessions too.
NewWebSocketShared(cs, n, s, url) ==
  IF n = 1
  THEN [cs EXCEPT ![n] = [owner |-> s, url |-> url, readyState |-> "CONNECTING",
                          sent |-> <<>>, closeReqs |-> <<>>, errPending |-> FALSE,
                          closeFrame |-> FALSE, failed |-> FALSE]]
  ELSE cs

\* new WebSocket(deepgramUrl): a connection of its own, CONNECTING.
NewWebSocket(cs, n, s, url) ==
  [cs EXCEPT ![n] = [owner |-> s, url |-> url, readyState |-> "CONNECTING",
                     sent |-> <<>>, closeReqs |-> <<>>, errPending |-> FALSE,
                     closeFrame |-> FALSE, failed |-> FALSE]]

\* websocket.open(ws)
WsOpen(s) ==
  /\ running
  /\ client[s] = "upgraded"
  /\ client' = [client EXCEPT ![s] = "open"]
  /\ activeConnections' = activeConnections \cup {s}
  /\ LET deepgramUrl == buildDeepgramUrl(wsData[s].queryParams)
         deepgramWs == nextConn + 1
     IN /\ conns' = NewWebSocket(conns, deepgramWs, s, deepgramUrl)
        /\ nextConn' = deepgramWs
        /\ wsData' = [wsData EXCEPT ![s].deepgramWs = deepgramWs]
  /\ UNCHANGED <<running, exitCode, request, response, clientClose, clientFrame, clientRecv, clientLog,
                 upstreamLog, clientClosedIn, dgErrorIn, dgCloseEvent, shutdown>>

\* The upstream handshake completes: readyState OPEN, the 'open' listener logs.
DgOpen(c) ==
  /\ running
  /\ conns[c].readyState = "CONNECTING"
  /\ ~conns[c].failed
  /\ conns' = [conns EXCEPT ![c].readyState = "OPEN"]
  /\ UNCHANGED <<running, exitCode, request, response, client, wsData, clientClose, clientFrame, clientRecv,
                 activeConnections, nextConn, clientLog, upstreamLog, clientClosedIn,
                 dgErrorIn, dgCloseEvent, shutdown>>

\* deepgramWs.send(message) on an OPEN connection
DgSend(cs, dg, message) == [cs EXCEPT ![dg].sent = Append(@, message)]

\* A handler that also hands a CONNECTING connection the frame.
MessageHandlerQueued(cs, s, message) ==
  LET deepgramWs == wsData[s].deepgramWs
  IN IF deepgramWs # 0 /\ cs[deepgramWs].readyState \in {"CONNECTING", "OPEN"}
     THEN DgSend(cs, deepgramWs, message)
     ELSE cs

\* A handler that hands the frame to every OPEN upstream connection.
MessageHandlerBroadcast(cs, s, message) ==
  [c \in DOMAIN cs |->
     IF cs[c].readyState = "OPEN" THEN [cs[c] EXCEPT !.sent = Append(@, message)] ELSE cs[c]]

\* websocket.message(ws, message), its effect on the upstream connections.
MessageHandler(cs, s, message) ==
  LET deepgramWs == wsData[s].deepgramWs
  IN IF deepgramWs # 0 /\ cs[deepgramWs].readyState = "OPEN"
     THEN DgSend(cs, deepgramWs, message)
     ELSE cs

WsMessage(s, message) ==
  /\ running
  /\ client[s] = "open"
  /\ TotalMsgs < MaxMsgs
  /\ conns' = MessageHandler(conns, s, message)
  /\ clientLog' = [clientLog EXCEPT ![s] = Append(@, [frame |-> message, state |-> SessionState(s)])]
  /\ UNCHANGED <<running, exitCode, request, response, client, wsData, clientClose, clientFrame, clientRecv,
                 activeConnections, nextConn, upstreamLog, clientClosedIn, dgErrorIn,
                 dgCloseEvent, shutdown>>

\* A send that puts the frame before those already sent.
WsSendPrepend(recv, cl, data) == IF cl = "open" THEN <<data>> \o recv ELSE recv

\* A send that does not look at the state of the client channel.
WsSendAlways(recv, cl, data) == Append(recv, data)

\* ws.send(data): a frame on the client channel while it is open; on a closed
\* channel nothing is sent.
WsSend(recv, cl, data) == IF cl = "open" THEN Append(recv, data) ELSE recv

\* deepgramWs.close(code, reason) on an OPEN connection: the closing handshake
\* starts, readyState CLOSING.
DgCloseCall(cs, dg, code, reason) ==
  [cs EXCEPT ![dg].readyState = "CLOSING",
             ![dg].closeReqs = Append(@, [code |-> code, reason |-> reason])]

\* A handler that closes the upstream connection whatever its readyState.
CloseHandlerAlways(cs, s) ==
  LET deepgramWs == wsData[s].deepgramWs
  IN IF deepgramWs # 0 /\ cs[deepgramWs].readyState # "NONE"
     THEN DgCloseCall(cs, deepgramWs, NormalClosure, "Client disconnected")
     ELSE cs

\* websocket.close(ws, code, reason), its effect on the upstream connections.
CloseHandler(cs, s) ==
  LET deepgramWs == wsData[s].deepgramWs
  IN IF deepgramWs # 0 /\ cs[deepgramWs].readyState = "OPEN"
     THEN DgCloseCall(cs, deepgramWs, NormalClosure, "Client disconnected")
     ELSE cs

\* The client channel closes from the client's side (a close frame or a lost
\* connection); Bun runs websocket.close.
WsClose(s) ==
  /\ running
  /\ client[s] = "open"
  /\ client' = [client EXCEPT ![s] = "closed"]
  /\ activeConnections' = activeConnections \ {s}
  /\ conns' = CloseHandler(conns, s)
  /\ clientClosedIn' = [clientClosedIn EXCEPT ![s] = SessionState(s)]
  /\ UNCHANGED <<running, exitCode, request, response, wsData, clientClose, clientFrame, clientRecv,
                 nextConn, clientLog, upstreamLog, dgErrorIn, dgCloseEvent, shutdown>>

\* The close codes a close frame must not carry (RFC 6455, 7.4.1): they only
\* report, at an endpoint, a close that came without a code.
ReservedCodes == {1005, 1006, 1015}

\* What an endpoint reports for a close frame without a status code.
NoStatus == [code |-> 1005, reason |-> ""]

\* The close frame ws.close(code, reason) puts on the client channel.  A
\* reserved code is the platform's to handle: the frame carries it all the
\* same (`carried`), or goes out with no status code and so no reason.
FrameOf(call, carried) == IF call.code \in ReservedCodes /\ ~carried THEN NoStatus ELSE call

\* The close frames on the client channels once the ws.close calls `calls`
\* have been made.
FramesAfter(calls, carried) ==
  [s \in AllSessions |->
     IF Len(calls[s]) > Len(clientClose[s])
     THEN Append(clientFrame[s], FrameOf(calls[s][Len(calls[s])], carried))
     ELSE clientFrame[s]]

\* The variables a close of the client channel touches, as one value.
Cur ==
  [client |-> client, clientClose |-> clientClose, activeConnections |-> activeConnections,
   conns |-> conns, clientClosedIn |-> clientClosedIn]

\* A close whose close handler leaves the session in the registry.
ServerCloseKeepEntry(st, s, code, reason) ==
  IF st.client[s] = "open"
  THEN [client |-> [st.client EXCEPT ![s] = "closed"],
        clientClose |-> [st.clientClose EXCEPT ![s] = Append(@, [code |-> code, reason |-> reason])],
        activeConnections |-> st.activeConnections,
        conns |-> CloseHandler(st.conns, s),
        clientClosedIn |-> [st.clientClosedIn EXCEPT ![s] =
                              SessionStateOf("open", ReadyStateOf(st.conns, wsData[s].deepgramWs))]]
  ELSE st

\* ws.close(code, reason) called by the server on the client channel of s in
\* state st.  On an open channel Bun sends the close frame and runs
\* websocket.close before ws.close returns; on a channel that is no longer
\* open it does nothing.
ServerClose(st, s, code, reason) ==
  IF st.client[s] = "open"
  THEN [client |-> [st.client EXCEPT ![s] = "closed"],
        clientClose |-> [st.clientClose EXCEPT ![s] = Append(@, [code |-> code, reason |-> reason])],
        activeConnections |-> st.activeConnections \ {s},
        conns |-> CloseHandler(st.conns, s),
        clientClosedIn |-> [st.clientClosedIn EXCEPT ![s] =
                              SessionStateOf("open", ReadyStateOf(st.conns, wsData[s].deepgramWs))]]
  ELSE st

\* An error listener that connects to the upstream again in place of closing
\* the client.
ErrorListenerReconnect(st, ws) ==
  [st EXCEPT !.conns = NewWebSocket(st.conns, wsData[ws].deepgramWs, ws,
                                    buildDeepgramUrl(wsData[ws].queryParams))]

\* deepgramWs 'error' listener
ErrorListener(st, ws) == ServerClose(st, ws, InternalError, "Deepgram connection error")

\* The upstream connection fails (the handshake, or the transport later) and
\* 'error' fires.  What readyState the listener meets is the platform's
\* choice.  With `closes` the platform has set readyState CLOSED before it
\* fires 'error' (the WebSocket standard's closing steps) and 'close'
\* follows (DgClose).  Without it 'error' is delivered before readyState
\* changes: the listener, and the websocket.close it runs, meet the
\* connection as it was; 'close' follows for a connection that was OPEN or
\* CLOSING, and a connection whose handshake failed stays CONNECTING, with
\* no 'close'.
DgError(c, closes) ==
  /\ running
  /\ conns[c].readyState \in {"CONNECTING", "OPEN", "CLOSING"}
  /\ ~conns[c].failed
  /\ ~conns[c].errPending
  /\ LET ws == conns[c].owner
         errored == IF closes
                    THEN [Cur EXCEPT !.conns[c].readyState = "CLOSED",
                                     !.conns[c].errPending = TRUE]
                    ELSE IF conns[c].readyState = "CONNECTING"
                    THEN [Cur EXCEPT !.conns[c].failed = TRUE]
                    ELSE [Cur EXCEPT !.conns[c].errPending = TRUE]
         after == ErrorListener(errored, ws)
     IN /\ client' = after.client
        /\ clientClose' = after.clientClose
        /\ clientFrame' = FramesAfter(after.clientClose, TRUE)
        /\ activeConnections' = after.activeConnections
        /\ conns' = after.conns
        /\ clientClosedIn' = after.clientClosedIn
        /\ dgErrorIn' = [dgErrorIn EXCEPT ![c] = SessionState(ws)]
  /\ UNCHANGED <<running, exitCode, request, response, wsData, clientRecv, nextConn, clientLog,
                 upstreamLog, dgCloseEvent, shutdown>>

\* The upstream's close frame arrives on an OPEN connection: the closing
\* handshake has started, readyState is CLOSING until the connection is gone
\* and 'close' fires (DgClose).  No listener runs.
DgCloseFrame(c) ==
  /\ running
  /\ conns[c].readyState = "OPEN"
  /\ ~conns[c].errPending
  /\ conns' = [conns EXCEPT ![c].readyState = "CLOSING", ![c].closeFrame = TRUE]
  /\ UNCHANGED <<running, exitCode, request, response, client, wsData, clientClose, clientFrame, clientRecv,
                 activeConnections, nextConn, clientLog, upstreamLog, clientClosedIn,
                 dgErrorIn, dgCloseEvent, shutdown>>

\* The close events of a connection no error was reported on: a normal
\* completion and a server fault (the upstream's own close frame), and the
\* abnormal closure of a connection lost without a close frame.
UpstreamCloses ==
  {[code |-> 1000, reason |-> ""], [code |-> 1011, reason |-> "server error"],
   [code |-> 1006, reason |-> ""]}

\* The close event that follows an 'error': the abnormal closure.
FailureCloses == {[code |-> 1006, reason |-> ""]}

\* deepgramWs 'close' listener
CloseListener(st, ws, event) == ServerClose(st, ws, event.code, event.reason)

\* The upstream connection closes: after a failure, by the upstream's own
\* close frame, by the loss of the connection, or as the end of the closing
\* handshake the relay started.  `carried` is the platform's way with a
\* reserved code handed to ws.close (FrameOf).
DgClose(c, event, carried) ==
  /\ running
  /\ \/ conns[c].errPending /\ event \in FailureCloses
     \/ /\ ~conns[c].errPending
        /\ conns[c].readyState \in {"OPEN", "CLOSING"}
        /\ event \in UpstreamCloses
  /\ carried \/ (event.code \in ReservedCodes /\ client[conns[c].owner] = "open")
  /\ LET ws == conns[c].owner
         closed == [Cur EXCEPT !.conns[c].readyState = "CLOSED", !.conns[c].errPending = FALSE,
                              !.conns[c].closeFrame = FALSE]
         after == CloseListener(closed, ws, event)
     IN /\ client' = after.client
        /\ clientClose' = after.clientClose
        /\ clientFrame' = FramesAfter(after.clientClose, carried)
        /\ activeConnections' = after.activeConnections
        /\ conns' = after.conns
        /\ clientClosedIn' = after.clientClosedIn
        /\ dgCloseEvent' = [dgCloseEvent EXCEPT ![c] =
                              <<[code |-> event.code, reason |-> event.reason,
                                 clientOpen |-> client[ws] = "open"]>>]
  /\ UNCHANGED <<running, exitCode, request, response, wsData, clientRecv, nextConn, clientLog,
                 upstreamLog, dgErrorIn, shutdown>>

\* A loop without the try/catch: the first ws.close() that throws ends it.
RECURSIVE CloseAllStopAtThrow(_, _, _)
CloseAllStopAtThrow(st, todo, failing) ==
  IF todo = {} THEN st
  ELSE LET ws == CHOOSE x \in todo : \A y \in todo : x <= y
       IN IF ws \in failing THEN st
          ELSE CloseAllStopAtThrow(ServerClose(st, ws, NormalClosure, ""), todo \ {ws}, failing)

\* activeConnections.forEach((ws) => { try { ws.close() } catch {} }): the
\* registered sockets in turn; ws.close() of a socket in `failing` throws
\* before it takes effect and the catch goes on to the next.  ws.close()
\* without arguments sends the normal-closure code and no reason.
RECURSIVE CloseAll(_, _, _)
CloseAll(st, todo, failing) ==
  IF todo = {} THEN st
  ELSE LET ws == CHOOSE x \in todo : \A y \in todo : x <= y
       IN CloseAll(IF ws \in failing THEN st ELSE ServerClose(st, ws, NormalClosure, ""),
                   todo \ {ws}, failing)

Signals == {"SIGTERM", "SIGINT", "UNCAUGHT_EXCEPTION", "UNHANDLED_REJECTION"}

\* What gracefulShutdown(signal) does: every registered socket is closed in
\* turn, then process.exit(0).
Shutdown(signal, failing) ==
  /\ LET after == CloseAll(Cur, activeConnections, failing)
     IN /\ client' = after.client
        /\ clientClose' = after.clientClose
        /\ clientFrame' = FramesAfter(after.clientClose, TRUE)
        /\ activeConnections' = after.activeConnections
        /\ conns' = after.conns
        /\ clientClosedIn' = after.clientClosedIn
  /\ shutdown' = <<[signal |-> signal, registered |-> activeConnections,
                    active |-> {s \in AllSessions : SessionState(s) = "ACTIVE"},
                    failing |-> failing]>>
  /\ running' = FALSE
  /\ exitCode' = <<0>>

\* gracefulShutdown(signal), called by the four process.on handlers; it ends
\* in process.exit(0).
gracefulShutdown(signal, failing) ==
  /\ running
  /\ Shutdown(signal, failing)
  /\ UNCHANGED <<request, response, wsData, clientRecv, nextConn, clientLog, upstreamLog,
                 dgErrorIn, dgCloseEvent>>

\* A listener without the try/catch: what ws.send throws leaves it.
MessageListenerUncaught(recv, cl, data, throws) ==
  [recv |-> WsSend(recv, cl, data), thrown |-> throws]

\* deepgramWs 'message' listener: try { ws.send(event.data) } catch {}.  The
\* frame is put on the client channel if it is open, and nothing is thrown
\* whatever ws.send did.
MessageListener(recv, cl, data, throws) ==
  [recv |-> WsSend(recv, cl, data), thrown |-> FALSE]

\* The upstream sends a frame and the 'message' listener runs.  The upstream
\* may send while the connection is OPEN or CLOSING, until its own close
\* frame.  On a client channel that is no longer open ws.send returns or
\* throws, as the platform has it (`throws`).  An exception that left the
\* listener would reach process.on("uncaughtException"), which shuts the
\* process down.
DgMessage(c, data, throws) ==
  /\ running
  /\ conns[c].readyState \in {"OPEN", "CLOSING"}
  /\ ~conns[c].closeFrame
  /\ ~conns[c].errPending
  /\ TotalMsgs < MaxMsgs
  /\ throws => client[conns[c].owner] # "open"
  /\ LET ws == conns[c].owner
         out == MessageListener(clientRecv[ws], client[ws], data, throws)
     IN /\ clientRecv' = [clientRecv EXCEPT ![ws] = out.recv]
        /\ upstreamLog' = [upstreamLog EXCEPT ![c] =
                             Append(@, [frame |-> data, state |-> SessionState(ws)])]
        /\ IF out.thrown
           THEN Shutdown("UNCAUGHT_EXCEPTION", {})
           ELSE UNCHANGED <<running, exitCode, client, clientClose, clientFrame,
                            activeConnections, conns, clientClosedIn, shutdown>>
  /\ UNCHANGED <<request, response, wsData, nextConn, clientLog, dgErrorIn, dgCloseEvent>>

\* ------------------------------------------------------------- the inputs
NoHeader == [present |-> FALSE, value |-> <<>>]

Hdr(value) == [present |-> TRUE, value |-> value]

\* "json, access_token.v": a verified credential after another protocol
GoodHeader == Hdr(<<"j", "s", "o", "n", ",", " ">> \o Prefix \o <<"v">>)

\* The upgrade requests of the relay: no header; a list without an
\* access_token. entry; a credential with a bad signature; a verified one.
RelayHeaders == {NoHeader, Hdr(<<"j", "s", "o", "n">>), Hdr(Prefix \o <<"x">>), GoodHeader}

RelayQueries == {<<>>}

\* ------------------------------------------------------ the specification
Next ==
  \/ \E s \in Sessions, header \in RelayHeaders, query \in RelayQueries, upgradable \in BOOLEAN :
       Fetch(s, header, query, upgradable)
  \/ \E s \in Sessions : WsOpen(s)
  \/ \E c \in ConnIds : DgOpen(c)
  \/ \E s \in Sessions, message \in Frames : WsMessage(s, message)
  \/ \E c \in ConnIds, data \in Frames, throws \in BOOLEAN : DgMessage(c, data, throws)
  \/ \E c \in ConnIds, closes \in BOOLEAN : DgError(c, closes)
  \/ \E c \in ConnIds : DgCloseFrame(c)
  \/ \E c \in ConnIds, event \in UpstreamCloses \cup FailureCloses, carried \in BOOLEAN :
       DgClose(c, event, carried)
  \/ \E s \in Sessions : WsClose(s)
  \/ \E signal \in Signals, failing \in SUBSET activeConnections : gracefulShutdown(signal, failing)

Spec == Init /\ [][Next]_vars

\* The close events under which the relay of frames is followed: a close
\* by the upstream's close frame and the loss of the connection.  No frame
\* handler reads a close code.
FrameCloses == {[code |-> 1000, reason |-> ""], [code |-> 1006, reason |-> ""]}

\* The relay of the frames of FrameSessions sessions, up to the shutdown
\* (which ends the process: no frame is handled after it).
NextFrames ==
  \/ \E s \in 1..FrameSessions, header \in RelayHeaders, query \in RelayQueries,
        upgradable \in BOOLEAN : Fetch(s, header, query, upgradable)
  \/ \E s \in 1..FrameSessions : WsOpen(s)
  \/ \E c \in ConnIds : DgOpen(c)
  \/ \E s \in 1..FrameSessions, message \in Frames : WsMessage(s, message)
  \/ \E c \in ConnIds, data \in Frames, throws \in BOOLEAN : DgMessage(c, data, throws)
  \/ \E c \in ConnIds, closes \in BOOLEAN : DgError(c, closes)
  \/ \E c \in ConnIds : DgCloseFrame(c)
  \/ \E c \in ConnIds, event \in FrameCloses : DgClose(c, event, TRUE)
  \/ \E s \in 1..FrameSessions : WsClose(s)

SpecFrames == Init /\ [][NextFrames]_vars

\* The life of the connections alone.  The frame handlers read the channels'
\* state and write only the frames sent and received, so that the channels,
\* the registry and the close frames go through the same states without them.
NextLifecycle ==
  \/ \E s \in Sessions, header \in RelayHeaders, query \in RelayQueries, upgradable \in BOOLEAN :
       Fetch(s, header, query, upgradable)
  \/ \E s \in Sessions : WsOpen(s)
  \/ \E c \in ConnIds : DgOpen(c)
  \/ \E c \in ConnIds, closes \in BOOLEAN : DgError(c, closes)
  \/ \E c \in ConnIds : DgCloseFrame(c)
  \/ \E c \in ConnIds, event \in UpstreamCloses \cup FailureCloses, carried \in BOOLEAN :
       DgClose(c, event, carried)
  \/ \E s \in Sessions : WsClose(s)
  \/ \E signal \in Signals, failing \in SUBSET activeConnections : gracefulShutdown(signal, failing)

SpecLifecycle == Init /\ [][NextLifecycle]_vars

\* The same for the sessions of the shutdown scenario, all of them accepted.
NextShutdown ==
  \/ \E s \in 1..ShutdownSessions, upgradable \in BOOLEAN : Fetch(s, GoodHeader, <<>>, upgradable)
  \/ \E s \in 1..ShutdownSessions : WsOpen(s)
  \/ \E c \in ConnIds : DgOpen(c)
  \/ \E c \in ConnIds, closes \in BOOLEAN : DgError(c, closes)
  \/ \E c \in ConnIds : DgCloseFrame(c)
  \/ \E c \in ConnIds, event \in UpstreamCloses \cup FailureCloses, carried \in BOOLEAN :
       DgClose(c, event, carried)
  \/ \E s \in 1..ShutdownSessions : WsClose(s)
  \/ \E signal \in Signals, failing \in SUBSET activeConnections : gracefulShutdown(signal, failing)

SpecShutdown == Init /\ [][NextShutdown]_vars

\* The client query strings the URL builder is fed: every list of at most
\* MaxParams parameters, a name being one the builder reads or the name of
\* its own authentication parameter, a value being empty or not.
ParamNames ==
  {"token", "model", "language", "encoding", "sample_rate", "channels", "smart_format",
   "punctuate", "diarize", "filler_words"}

ParamValues == {"", "custom"}

RECURSIVE SeqsUpTo(_, _)
SeqsUpTo(S, n) ==
  IF n = 0 THEN {<<>>}
  ELSE LET shorter == SeqsUpTo(S, n - 1)
       IN shorter \cup {Append(q, x) : q \in {r \in shorter : Len(r) = n - 1}, x \in S}

Queries == SeqsUpTo(ParamNames \X ParamValues, MaxParams)

\* One accepted client per query string: the upgrade, then websocket.open,
\* which builds the upstream URL.
NextUrl ==
  \/ /\ request[1] = <<>>
     /\ \E query \in Queries : Fetch(1, GoodHeader, query, TRUE)
  \/ WsOpen(1)

SpecUrl == Init /\ [][NextUrl]_vars

\* ------------------------------------------------------------- the claims
Required ==
  << <<"model", "nova-3">>, <<"language", "en">>, <<"encoding", "linear16">>,
     <<"sample_rate", "16000">>, <<"channels", "1">>, <<"smart_format", "true">> >>

Optional == {"punctuate", "diarize", "filler_words"}

\* How many parameters of the list carry the name.
Occurrences(params, name) == Cardinality({i \in 1..Len(params) : params[i][1] = name})

\* The value the client gave the name: that of the first parameter so named.
Supplied(query, name) ==
  query[CHOOSE i \in 1..Len(query) :
          query[i][1] = name /\ \A j \in 1..(i - 1) : query[j][1] # name][2]

\* The upstream connections that exist, each with the query string of the
\* session it was opened for.
Built == {c \in ConnIds : conns[c].readyState # "NONE"}

UrlOf(c) == conns[c].url.searchParams

QueryOf(c) == wsData[conns[c].owner].queryParams

\* C7: every required parameter the client's options omit is in the built URL
\* exactly once, with its documented default; for empty options the
\* transcription parameters are exactly the six defaults, in the documented
\* order, after the authentication parameter.
C7_DefaultsForOmitted ==
  \A c \in Built :
    /\ \A i \in 1..Len(Required) :
         ~HasParam(QueryOf(c), Required[i][1]) =>
           /\ Occurrences(UrlOf(c), Required[i][1]) = 1
           /\ ParamsGet(UrlOf(c), Required[i][1]) = <<Required[i][2]>>
    /\ QueryOf(c) = <<>> =>
         /\ Len(UrlOf(c)) = Len(Required) + 1
         /\ Tail(UrlOf(c)) = Required

\* A URL was built for options that give one required parameter and omit
\* another, which has its default in the URL.
C7_Witness ==
  \E c \in Built :
    /\ HasParam(QueryOf(c), "model")
    /\ Supplied(QueryOf(c), "model") # ""
    /\ ~HasParam(QueryOf(c), "language")
    /\ ParamsGet(UrlOf(c), "language") = <<"en">>

\* C8 as stated: a required parameter carries the client's value whenever the
\* option is present, whatever the value, and the default only when the
\* option is absent; the authentication parameter is the server's credential.
C8_ClientValueWheneverPresent ==
  \A c \in Built :
    /\ \A i \in 1..Len(Required) :
         /\ HasParam(QueryOf(c), Required[i][1]) =>
              ParamsGet(UrlOf(c), Required[i][1]) = <<Supplied(QueryOf(c), Required[i][1])>>
         /\ ParamsGet(UrlOf(c), Required[i][1]) = <<Required[i][2]>> =>
              ~HasParam(QueryOf(c), Required[i][1])
    /\ ParamsGet(UrlOf(c), "token") = <<CONFIG.deepgramApiKey>>

\* C8, amended: a required parameter carries the client's value, unmodified,
\* whenever the option is present with a non-empty value, and the default
\* when the option is absent or its value is the empty string; the URL has
\* one authentication parameter, the server's credential, whatever the
\* client sent under that name.
C8_ClientValueWhenNonEmpty ==
  \A c \in Built :
    /\ \A i \in 1..Len(Required) :
         /\ Occurrences(UrlOf(c), Required[i][1]) = 1
         /\ ParamsGet(UrlOf(c), Required[i][1]) =
              IF HasParam(QueryOf(c), Required[i][1]) /\ Supplied(QueryOf(c), Required[i][1]) # ""
              THEN <<Supplied(QueryOf(c), Required[i][1])>>
              ELSE <<Required[i][2]>>
    /\ Occurrences(UrlOf(c), "token") = 1
    /\ ParamsGet(UrlOf(c), "token") = <<CONFIG.deepgramApiKey>>

\* A URL was built for options that give a required parameter a value, give
\* another the empty string, and carry a token of the client's own.
C8_Witness ==
  \E c \in Built :
    /\ HasParam(QueryOf(c), "model") /\ Supplied(QueryOf(c), "model") = "custom"
    /\ HasParam(QueryOf(c), "encoding") /\ Supplied(QueryOf(c), "encoding") = ""
    /\ HasParam(QueryOf(c), "token")
    /\ ParamsGet(UrlOf(c), "model") = <<"custom">>

\* C9: the built URL holds exactly the optional flags the client's options
\* hold, each once and with the client's value (the empty string too), and
\* no parameter for an optional flag the options do not hold.
C9_OptionalPassthrough ==
  \A c \in Built :
    \A flag \in Optional :
      IF HasParam(QueryOf(c), flag)
      THEN /\ Occurrences(UrlOf(c), flag) = 1
           /\ ParamsGet(UrlOf(c), flag) = <<Supplied(QueryOf(c), flag)>>
      ELSE Occurrences(UrlOf(c), flag) = 0

\* A URL was built for options that hold two of the three flags, one of them
\* with the empty string.
C9_Witness ==
  \E c \in Built :
    /\ HasParam(QueryOf(c), "punctuate") /\ Supplied(QueryOf(c), "punctuate") = ""
    /\ HasParam(QueryOf(c), "filler_words") /\ Supplied(QueryOf(c), "filler_words") = "custom"
    /\ ~HasParam(QueryOf(c), "diarize")
    /\ Occurrences(UrlOf(c), "punctuate") = 1
    /\ Occurrences(UrlOf(c), "diarize") = 0

\* The frames of a log that met the session in the given state.
RECURSIVE FramesIn(_, _)
FramesIn(log, state) ==
  IF log = <<>> THEN <<>>
  ELSE (IF Head(log).state = state THEN <<Head(log).frame>> ELSE <<>>) \o FramesIn(Tail(log), state)

\* The header has no access_token. entry, or its first one carries a
\* credential that does not verify.
Unauthenticated(header) ==
  \/ ~header.present
  \/ LET entries == Split(header.value)
         matches == {i \in 1..Len(entries) : StartsWith(Trim(entries[i]), Prefix)}
     IN \/ matches = {}
        \/ LET first == CHOOSE i \in matches : \A j \in matches : i <= j
           IN SubSeq(Trim(entries[first]), Len(Prefix) + 1, Len(Trim(entries[first])))
                \notin VerifiedTokens

\* The headers a request can carry that are not unauthenticated.
AuthenticatedHeaders == {header \in RelayHeaders : ~Unauthenticated(header)}

\* C1: an upgrade request whose header is absent, has no access_token. entry
\* or carries a credential that fails verification is answered 401; no
\* session is created or registered for it and no upstream connection is
\* ever made on its behalf, whatever the other sessions do.
C1_UnauthenticatedRejected ==
  \A s \in AllSessions :
    (request[s] # <<>> /\ request[s][1].header \notin AuthenticatedHeaders) =>
      /\ response[s] = <<[status |-> Unauthorized, proto |-> <<>>]>>
      /\ client[s] = "none"
      /\ s \notin activeConnections
      /\ wsData[s].deepgramWs = 0
      /\ \A c \in ConnIds : conns[c].owner # s

\* A request with a bad signature was answered 401 while another session is
\* relaying, and the only upstream connection is that session's.
C1_Witness ==
  \E s, t \in Sessions :
    /\ request[s] # <<>>
    /\ request[s][1].header = Hdr(Prefix \o <<"x">>)
    /\ response[s] # <<>>
    /\ response[s][1].status = Unauthorized
    /\ SessionState(t) = "ACTIVE"
    /\ nextConn = 1

\* C2: the frames the upstream channel of a session was sent are the frames
\* its client sent while the session was ACTIVE, in that order, and the
\* frames the client channel was sent are the frames its upstream sent while
\* the session was ACTIVE, in that order.
C2_OrderPreserved ==
  /\ \A c \in Built :
       /\ conns[c].sent = FramesIn(clientLog[conns[c].owner], "ACTIVE")
       /\ clientRecv[conns[c].owner] = FramesIn(upstreamLog[c], "ACTIVE")
  /\ \A s \in AllSessions : wsData[s].deepgramWs = 0 => clientRecv[s] = <<>>

\* Two different client frames reached the upstream, in the order the client
\* sent them.
C2_Witness ==
  \E c \in Built :
    /\ Len(conns[c].sent) = 2
    /\ conns[c].sent[1] # conns[c].sent[2]
    /\ conns[c].sent[1] = clientLog[conns[c].owner][1].frame

\* C3: when the upstream channel closes with code c and reason r while the
\* client channel of its session is still open, the client channel is closed
\* with exactly c and r: the close call is made with them and the close frame
\* carries them.
C3_UpstreamClosePropagated ==
  \A c \in ConnIds :
    (dgCloseEvent[c] # <<>> /\ dgCloseEvent[c][1].clientOpen) =>
      LET event == [code |-> dgCloseEvent[c][1].code, reason |-> dgCloseEvent[c][1].reason]
      IN /\ client[conns[c].owner] = "closed"
         /\ clientClose[conns[c].owner] = <<event>>
         /\ clientFrame[conns[c].owner] = <<event>>

\* C4: when the client channel closes while the session is ACTIVE, the
\* upstream channel of that session has received exactly one close request,
\* with code 1000 and reason "Client disconnected"; no upstream channel has a
\* close request but for the close of its own session's client in ACTIVE.
C4_ClientCloseReachesUpstream ==
  /\ \A s \in AllSessions :
       clientClosedIn[s] = "ACTIVE" =>
         /\ wsData[s].deepgramWs # 0
         /\ conns[wsData[s].deepgramWs].closeReqs =
              <<[code |-> NormalClosure, reason |-> "Client disconnected"]>>
  /\ \A c \in ConnIds :
       conns[c].closeReqs # <<>> => clientClosedIn[conns[c].owner] = "ACTIVE"

\* A client closed in ACTIVE and its upstream has the close request, while
\* another session is still ACTIVE and its upstream has none.
C4_Witness ==
  \E s, t \in Sessions :
    /\ clientClosedIn[s] = "ACTIVE"
    /\ Len(conns[wsData[s].deepgramWs].closeReqs) = 1
    /\ SessionState(t) = "ACTIVE"
    /\ conns[wsData[t].deepgramWs].closeReqs = <<>>

\* C5 as stated: after a shutdown issued while 3 sessions are ACTIVE, all 3
\* client channels and all 3 upstream channels are closed and the registry is
\* empty, also when a close raised an error.
C5_ShutdownClosesAll ==
  (shutdown # <<>> /\ Cardinality(shutdown[1].active) = ShutdownSessions) =>
    /\ \A s \in shutdown[1].active :
         /\ client[s] = "closed"
         /\ conns[wsData[s].deepgramWs].readyState = "CLOSED"
    /\ activeConnections = {}

\* The frames of the client's that met the session OPENING are not among
\* those the upstream was sent: it was sent as many frames as met the session
\* ACTIVE, the first of them first.
C6_NothingFromOpening ==
  \A c \in Built :
    LET active == SelectSeq(clientLog[conns[c].owner], LAMBDA e : e.state = "ACTIVE")
    IN /\ Len(conns[c].sent) = Len(active)
       /\ active # <<>> => conns[c].sent[1] = active[1].frame

\* A client message that meets the session OPENING changes nothing but the
\* record of the message itself.
C6_DropChangesNothing ==
  \A s \in AllSessions :
    (clientLog'[s] # clientLog[s] /\ SessionState(s) = "OPENING") =>
      UNCHANGED <<running, exitCode, request, response, client, wsData, clientClose, clientFrame,
                  clientRecv, activeConnections, conns, nextConn>>

\* C6: a client message that arrives while the session is OPENING is dropped:
\* it is not delivered to the upstream then or later, dropping it changes no
\* session state, and the first frame the upstream receives is the first the
\* client sent after the session became ACTIVE.
C6_PreHandshakeDropped == [](C6_NothingFromOpening) /\ [][C6_DropChangesNothing]_vars

\* The client sent f1 during the handshake and f2 after it; the upstream was
\* sent f2 only.
C6_Witness ==
  \E s \in AllSessions :
    /\ Len(clientLog[s]) = 2
    /\ clientLog[s][1] = [frame |-> "f1", state |-> "OPENING"]
    /\ clientLog[s][2] = [frame |-> "f2", state |-> "ACTIVE"]
    /\ conns[wsData[s].deepgramWs].sent = <<"f2">>

\* The close frame the error listener puts on the client channel.
ErrorClose == [code |-> InternalError, reason |-> "Deepgram connection error"]

\* The close request the client close handler puts on the upstream channel.
ClientGone == [code |-> NormalClosure, reason |-> "Client disconnected"]

Handshake(c) ==
  /\ conns[c].readyState = "CONNECTING"
  /\ (DgOpen(c) \/ \E closes \in BOOLEAN : DgError(c, closes))

\* The close event the platform owes: the one that follows an error (on a
\* connection it closed before it fired 'error', or on one that was OPEN or
\* CLOSING when 'error' fired), and the one that ends a closing handshake.
\* A failed handshake that left the connection CONNECTING is owed none.
CloseEventDue(c) ==
  /\ conns[c].errPending \/ conns[c].readyState = "CLOSING"
  /\ \E event \in UpstreamCloses \cup FailureCloses, carried \in BOOLEAN :
       DgClose(c, event, carried)

\* The sessions' events up to a shutdown, which ends the process.
NextRelay ==
  \/ \E s \in Sessions, header \in RelayHeaders, query \in RelayQueries, upgradable \in BOOLEAN :
       Fetch(s, header, query, upgradable)
  \/ \E s \in Sessions : WsOpen(s)
  \/ \E c \in ConnIds : DgOpen(c)
  \/ \E c \in ConnIds, closes \in BOOLEAN : DgError(c, closes)
  \/ \E c \in ConnIds : DgCloseFrame(c)
  \/ \E c \in ConnIds, event \in UpstreamCloses \cup FailureCloses, carried \in BOOLEAN :
       DgClose(c, event, carried)
  \/ \E s \in Sessions : WsClose(s)

\* The platform ends every handshake and delivers every close event it owes;
\* the client and the upstream owe nothing: each may stay as it is for ever.
SpecRelay ==
  /\ Init
  /\ [][NextRelay]_vars
  /\ \A c \in ConnIds : WF_vars(Handshake(c)) /\ WF_vars(CloseEventDue(c))

\* C11 as stated: from any state in which the client channel or the upstream
\* channel of a session has closed, the session reaches CLOSED, both channels
\* closed; this for a client that closes while the session is OPENING too.
C11_SessionDestroyed ==
  \A s \in Sessions :
    (client[s] = "closed" \/ ReadyStateOf(conns, wsData[s].deepgramWs) = "CLOSED")
      ~> (SessionState(s) = "CLOSED")

\* The sessions that have entered CLOSING (and those that went on to CLOSED).
Closing == {s \in AllSessions : SessionState(s) \in {"CLOSING", "CLOSED"}}

\* A step taken while the session is CLOSING puts no frame on its upstream
\* channel and none on its client channel, whatever arrives.
C12_NoForwardStep ==
  \A s \in Closing :
    /\ clientRecv'[s] = clientRecv[s]
    /\ conns'[wsData[s].deepgramWs].sent = conns[wsData[s].deepgramWs].sent

\* C12: once a session has entered CLOSING no message is forwarded in either
\* direction: a message that arrives from its client is not sent to its
\* upstream channel and a message that arrives from its upstream is not
\* delivered to its client channel.
C12_NoForwardAfterClosing == [][C12_NoForwardStep]_vars

\* The upstream's close frame arrived under an open client, whose next frame
\* met the session CLOSING: the upstream channel was sent the earlier one only.
C12_Witness ==
  \E c \in Built :
    /\ clientLog[conns[c].owner] =
         <<[frame |-> "f1", state |-> "ACTIVE"], [frame |-> "f2", state |-> "CLOSING"]>>
    /\ conns[c].sent = <<"f1">>
    /\ client[conns[c].owner] = "open"

\* C13 as stated: the first closing event of a session decides what the other
\* side sees, and no later event changes or repeats it.  An upstream error
\* under an open client closes the client once, with 1011, and the close
\* event that follows does not override it; a client that closes first
\* (before any upstream closing event) has its upstream closed with 1000
\* "Client disconnected" and no close is ever sent toward it; a close frame
\* toward the client carries the relay's own code only after an upstream
\* error, and the upstream's code and reason otherwise.
C13_FirstEventDecides ==
  /\ \A s \in Sessions : Len(clientClose[s]) <= 1
  /\ \A c \in ConnIds :
       dgErrorIn[c] \in {"OPENING", "ACTIVE"} => clientClose[conns[c].owner] = <<ErrorClose>>
  /\ \A s \in Sessions :
       (clientClosedIn[s] \in {"OPENING", "ACTIVE"} /\ clientClose[s] = <<>>) =>
         conns[wsData[s].deepgramWs].closeReqs = <<ClientGone>>
  /\ \A c \in ConnIds :
       LET ws == conns[c].owner
       IN (ws # 0 /\ clientClose[ws] # <<>>) =>
            IF dgErrorIn[c] # "NONE"
            THEN clientClose[ws] = <<ErrorClose>>
            ELSE /\ dgCloseEvent[c] # <<>>
                 /\ clientClose[ws] =
                      <<[code |-> dgCloseEvent[c][1].code, reason |-> dgCloseEvent[c][1].reason]>>

\* How far along its life a session in the given state is.
Rank(state) ==
  CASE state = "NONE" -> 0
    [] state = "OPENING" -> 1
    [] state = "ACTIVE" -> 2
    [] state = "CLOSING" -> 3
    [] state = "CLOSED" -> 4

\* A step moves no session back, and starts a session in OPENING.
C14_ForwardStep ==
  \A s \in AllSessions :
    /\ Rank(SessionState(s)') >= Rank(SessionState(s))
    /\ SessionState(s) = "NONE" => SessionState(s)' \in {"NONE", "OPENING"}

\* C14: a session moves only forward through OPENING, ACTIVE, CLOSING, CLOSED:
\* no step takes it to a state it has left, CLOSED is terminal, and a session
\* that has left ACTIVE is never ACTIVE again.
C14_OnlyForward == [][C14_ForwardStep]_vars

\* One session went through ACTIVE to CLOSED; another left OPENING for
\* CLOSING directly and its upstream handshake completed afterwards.
C14_Witness ==
  \E s, t \in Sessions :
    /\ clientClosedIn[s] = "ACTIVE"
    /\ SessionState(s) = "CLOSED"
    /\ clientClosedIn[t] = "OPENING"
    /\ conns[wsData[t].deepgramWs].readyState = "OPEN"
    /\ SessionState(t) = "CLOSING"

\* The sessions whose client channel was opened (websocket.open has run).
Opened == {s \in AllSessions : client[s] \in {"open", "closed"}}

\* Every upstream connection is the one its owner's handle names, every
\* handle names a connection made for its own session, a session owns one
\* connection exactly when it was opened, and as many connections were made
\* as sessions were opened.
C15_OneUpstreamEach ==
  /\ \A c \in Built : conns[c].owner \in Opened /\ wsData[conns[c].owner].deepgramWs = c
  /\ \A s \in AllSessions :
       /\ wsData[s].deepgramWs # 0 <=> s \in Opened
       /\ wsData[s].deepgramWs # 0 => conns[wsData[s].deepgramWs].owner = s
       /\ Cardinality({c \in ConnIds : conns[c].owner = s}) = (IF s \in Opened THEN 1 ELSE 0)
  /\ nextConn = Cardinality(Opened)
  /\ Cardinality(Built) = nextConn

\* A handle, once set, is not replaced; a connection does not change owner,
\* is made only by the opening of its session's client channel, and once
\* CLOSED is not opened again.
C15_HandleKeptStep ==
  /\ \A s \in AllSessions :
       wsData[s].deepgramWs # 0 => wsData'[s].deepgramWs = wsData[s].deepgramWs
  /\ \A c \in ConnIds :
       /\ conns[c].owner # 0 => conns'[c].owner = conns[c].owner
       /\ (conns[c].owner = 0 /\ conns'[c].owner # 0) => client[conns'[c].owner] = "upgraded"
       /\ conns[c].readyState = "CLOSED" => conns'[c].readyState = "CLOSED"

\* C15: each upstream channel belongs to exactly one session and each session
\* makes at most one upstream connection in its life: its handle, once set,
\* is never replaced nor shared, and nothing connects again after an upstream
\* error, an upstream close or a failed handshake.
C15_UpstreamNeverShared == [](C15_OneUpstreamEach) /\ [][C15_HandleKeptStep]_vars

\* Two sessions hold different connections; the first one's failed in its
\* handshake and is still the one its handle names, the other is relaying.
C15_Witness ==
  \E s, t \in Sessions :
    /\ s # t
    /\ wsData[s].deepgramWs # 0
    /\ wsData[t].deepgramWs # 0
    /\ wsData[s].deepgramWs # wsData[t].deepgramWs
    /\ dgErrorIn[wsData[s].deepgramWs] = "OPENING"
    /\ dgCloseEvent[wsData[s].deepgramWs] # <<>>
    /\ SessionState(t) = "ACTIVE"

\* C16: on any termination request (a signal, an uncaught exception, an
\* unhandled rejection) a close is requested on every session registered at
\* that moment, whatever the request was; a close that raises an error does
\* not keep any other registered session from being closed: every one whose
\* close did not throw is closed, with the normal-closure code, and is out of
\* the registry; the process then exits with status 0.
C16_ShutdownClosesEachRegistered ==
  shutdown # <<>> =>
    /\ \A s \in shutdown[1].registered \ shutdown[1].failing :
         /\ client[s] = "closed"
         /\ clientClose[s] = <<[code |-> NormalClosure, reason |-> ""]>>
    /\ activeConnections = shutdown[1].registered \cap shutdown[1].failing
    /\ ~running
    /\ exitCode = <<0>>

\* An unhandled rejection ended the process with two sessions registered;
\* closing the first threw, and the second was closed all the same.
C16_Witness ==
  /\ shutdown # <<>>
  /\ shutdown[1].signal = "UNHANDLED_REJECTION"
  /\ shutdown[1].registered = {1, 2}
  /\ shutdown[1].failing = {1}
  /\ client[1] = "open"
  /\ clientClose[2] = <<[code |-> NormalClosure, reason |-> ""]>>
  /\ exitCode = <<0>>

\* The step handles an upstream frame of connection c whose client is gone.
LostToClient(c) ==
  /\ upstreamLog'[c] # upstreamLog[c]
  /\ client[conns[c].owner] = "closed"

\* The step handles a client frame of session s whose upstream is going or
\* gone.
LostToUpstream(s) ==
  /\ clientLog'[s] # clientLog[s]
  /\ ReadyStateOf(conns, wsData[s].deepgramWs) \in {"CLOSING", "CLOSED"}

\* A frame that cannot be delivered leaves the channels, the close frames,
\* the registry and the process as they were: nothing is sent, no session
\* changes state, no shutdown starts.
C17_LostFrameStep ==
  ((\E c \in Built : LostToClient(c)) \/ (\E s \in AllSessions : LostToUpstream(s))) =>
    UNCHANGED <<running, exitCode, shutdown, client, wsData, clientClose, clientFrame, clientRecv,
                activeConnections, conns, nextConn, clientClosedIn, dgErrorIn, dgCloseEvent>>

\* The connections that had a frame which could not be delivered.
HadLostFrame ==
  {c \in Built :
     \/ \E i \in 1..Len(upstreamLog[c]) : upstreamLog[c][i].state \in {"CLOSING", "CLOSED"}
     \/ \E i \in 1..Len(clientLog[conns[c].owner]) :
          clientLog[conns[c].owner][i].state \in {"CLOSING", "CLOSED"}}

\* The close event of a connection that had such a frame leaves its session
\* CLOSED and out of the registry.
C17_CloseEventCleansUp ==
  \A c \in HadLostFrame :
    dgCloseEvent[c] # <<>> =>
      /\ SessionState(conns[c].owner) = "CLOSED"
      /\ conns[c].owner \notin activeConnections

\* C17: a frame that cannot be delivered because its destination is gone is
\* dropped silently in both directions: the step changes no session's state
\* and not the registry, starts no shutdown, and the close event that follows
\* still leaves the session CLOSED.
C17_LostFrameSwallowed == [](C17_CloseEventCleansUp) /\ [][C17_LostFrameStep]_vars

\* A client left while its session was ACTIVE, a frame of its upstream then
\* met the closed channel, and the upstream connection was lost (1006, no
\* error before it), which left the session CLOSED.  A frame of another
\* client met an upstream that was closing; that client is still open, and
\* the process runs.
C17_Witness ==
  \E c \in Built, t \in Sessions :
    /\ clientClosedIn[conns[c].owner] = "ACTIVE"
    /\ \E i \in 1..Len(upstreamLog[c]) : upstreamLog[c][i].state = "CLOSING"
    /\ clientRecv[conns[c].owner] = <<>>
    /\ dgCloseEvent[c] = <<[code |-> 1006, reason |-> "", clientOpen |-> FALSE]>>
    /\ SessionState(conns[c].owner) = "CLOSED"
    /\ t # conns[c].owner
    /\ client[t] = "open"
    /\ \E i \in 1..Len(clientLog[t]) : clientLog[t][i].state = "CLOSING"
    /\ conns[wsData[t].deepgramWs].sent = <<>>
    /\ running

\* The registry holds the sessions whose client channel is open: opened, and
\* its close not yet handled.
C18_RegistryIsOpenClients == activeConnections = {s \in AllSessions : client[s] = "open"}

\* A session enters the registry in the step that opens its client channel
\* and leaves it in the step that closes its client channel, and in no other.
C18_RegistryStep ==
  \A s \in AllSessions :
    /\ (s \notin activeConnections /\ s \in activeConnections') =>
         (client[s] = "upgraded" /\ client'[s] = "open")
    /\ (s \in activeConnections /\ s \notin activeConnections') =>
         (client[s] = "open" /\ client'[s] = "closed")
    /\ client'[s] = client[s] => (s \in activeConnections' <=> s \in activeConnections)

\* C18: the registry contains exactly the sessions whose client channel was
\* accepted and whose client close is not yet handled: a session is added
\* once, when its client channel opens, and removed once, when its client
\* channel closes; no step that leaves the client channel as it is (an
\* upstream event, a message) changes its entry, and no session whose client
\* channel has closed is in the registry.
C18_RegistryExact == [](C18_RegistryIsOpenClients) /\ [][C18_RegistryStep]_vars

\* One session is registered and relaying; another was removed when an
\* upstream error closed its client, and its upstream's close event has
\* fired since.
C18_Witness ==
  \E s, t \in Sessions :
    /\ SessionState(s) = "ACTIVE"
    /\ s \in activeConnections
    /\ client[t] = "closed"
    /\ dgErrorIn[wsData[t].deepgramWs] = "ACTIVE"
    /\ dgCloseEvent[wsData[t].deepgramWs] # <<>>
    /\ t \notin activeConnections

\* --------------------------------------------------------- the token gate
\* The entries of the headers the token gate is fed: another protocol, the
\* two verified credentials, one with a bad signature, an expired one, the
\* prefix with no credential, a verified credential after a space, one
\* between a tab and a no-break space, and the empty entry.
Entries ==
  { <<"j", "s", "o", "n">>,
    Prefix \o <<"v">>, Prefix \o <<"w">>, Prefix \o <<"x">>, Prefix \o <<"e">>,
    Prefix, <<" ">> \o Prefix \o <<"v">>, <<"\t">> \o Prefix \o <<"w", "U+00A0">>, <<>> }

\* Array.prototype.join(","): the header a list of entries is sent as.
RECURSIVE Join(_)
Join(list) ==
  IF list = <<>> THEN <<>>
  ELSE IF Len(list) = 1 THEN Head(list)
  ELSE Head(list) \o <<",">> \o Join(Tail(list))

AuthHeaders == {NoHeader} \cup {Hdr(Join(list)) : list \in SeqsUpTo(Entries, MaxEntries)}

\* One upgrade request per header, and the opening of the client it admits.
NextAuth ==
  \/ /\ request[1] = <<>>
     /\ \E header \in AuthHeaders, upgradable \in BOOLEAN : Fetch(1, header, <<>>, upgradable)
  \/ WsOpen(1)

SpecAuth == Init /\ [][NextAuth]_vars

\* The entries of a header as the validator looks at them, and those among
\* them that start with access_token.
EntriesOf(header) == [i \in 1..Len(Split(header.value)) |-> Trim(Split(header.value)[i])]

Candidates(header) ==
  {i \in 1..Len(EntriesOf(header)) : StartsWith(EntriesOf(header)[i], Prefix)}

FirstCandidate(header) ==
  EntriesOf(header)[CHOOSE i \in Candidates(header) : \A j \in Candidates(header) : i <= j]

\* The credential of an entry: what follows access_token.
CredentialOf(entry) == SubSeq(entry, Len(Prefix) + 1, Len(entry))

\* C19: the validator looks at the first access_token. entry only.  When that
\* entry's credential verifies the result is the entry, and the protocol
\* echoed to the client is the entry, unchanged; in every other case (no
\* header, no such entry, a bad signature, an expired credential, also when a
\* later entry would verify) the result is the one failure signal and the
\* answer is 401.
C19_FirstEntryOnly ==
  \A s \in AllSessions :
    request[s] # <<>> =>
      LET header == request[s][1].header
          ok == /\ header.present
                /\ header.value # <<>>
                /\ Candidates(header) # {}
                /\ CredentialOf(FirstCandidate(header)) \in VerifiedTokens
      IN /\ validateWsToken(header) = (IF ok THEN <<FirstCandidate(header)>> ELSE <<>>)
         /\ ~ok => response[s] = <<[status |-> Unauthorized, proto |-> <<>>]>>
         /\ ok => response[s][1].status \in {SwitchingProtocols, UpgradeFailed}
         /\ (ok /\ response[s][1].status = SwitchingProtocols) =>
              response[s][1].proto = FirstCandidate(header)

\* A header whose first access_token. entry has a bad signature and whose
\* second one verifies was answered 401.
C19_Witness ==
  /\ request[1] # <<>>
  /\ request[1][1].header = Hdr(Join(<<Prefix \o <<"x">>, Prefix \o <<"v">>>>))
  /\ response[1] = <<[status |-> Unauthorized, proto |-> <<>>]>>
  /\ client[1] = "none"

\* ------------------------------------------------- the sessions side by side
\* The events of all the sessions, frames too, up to a shutdown.
NextSessions ==
  \/ \E s \in Sessions, header \in RelayHeaders, query \in RelayQueries, upgradable \in BOOLEAN :
       Fetch(s, header, query, upgradable)
  \/ \E s \in Sessions : WsOpen(s)
  \/ \E c \in ConnIds : DgOpen(c)
  \/ \E s \in Sessions, message \in Frames : WsMessage(s, message)
  \/ \E c \in ConnIds, data \in Frames, throws \in BOOLEAN : DgMessage(c, data, throws)
  \/ \E c \in ConnIds, closes \in BOOLEAN : DgError(c, closes)
  \/ \E c \in ConnIds : DgCloseFrame(c)
  \/ \E c \in ConnIds, event \in UpstreamCloses \cup FailureCloses, carried \in BOOLEAN :
       DgClose(c, event, carried)
  \/ \E s \in Sessions : WsClose(s)

SpecSessions == Init /\ [][NextSessions]_vars

\* The relay of the frames of all the sessions, every one accepted, with the
\* signals that shut the process down.
NextDelivery ==
  \/ \E s \in Sessions : Fetch(s, GoodHeader, <<>>, TRUE)
  \/ \E s \in Sessions : WsOpen(s)
  \/ \E c \in ConnIds : DgOpen(c)
  \/ \E s \in Sessions, message \in Frames : WsMessage(s, message)
  \/ \E c \in ConnIds, data \in Frames, throws \in BOOLEAN : DgMessage(c, data, throws)
  \/ \E c \in ConnIds, closes \in BOOLEAN : DgError(c, closes)
  \/ \E c \in ConnIds : DgCloseFrame(c)
  \/ \E c \in ConnIds, event \in UpstreamCloses \cup FailureCloses, carried \in BOOLEAN :
       DgClose(c, event, carried)
  \/ \E s \in Sessions : WsClose(s)
  \/ \E signal \in {"SIGTERM", "SIGINT"} : gracefulShutdown(signal, {})

SpecDelivery == Init /\ [][NextDelivery]_vars

\* The upstream connection of a session, NoConn before it has one.
UpstreamOf(s) == IF wsData[s].deepgramWs = 0 THEN NoConn ELSE conns[wsData[s].deepgramWs]

\* All there is of one session: its request and the answer, its client
\* channel and what was put on it, its data, its upstream channel and what
\* was put on it, its entry in the registry, and its state.
SessionView(s) ==
  [request |-> request[s], response |-> response[s], client |-> client[s],
   clientClose |-> clientClose[s], clientRecv |-> clientRecv[s], wsData |-> wsData[s],
   upstream |-> UpstreamOf(s), registered |-> s \in activeConnections,
   state |-> SessionState(s)]

\* A step that changes anything of one session changes nothing of another.
C20_OneSessionStep ==
  \A a, b \in AllSessions :
    (a # b /\ SessionView(a)' # SessionView(a)) => SessionView(b)' = SessionView(b)

\* The frames on the channels of a session are frames its own client and its
\* own upstream sent.
C20_OwnFramesOnly ==
  \A s \in AllSessions :
    /\ \A i \in 1..Len(UpstreamOf(s).sent) :
         \E j \in 1..Len(clientLog[s]) : clientLog[s][j].frame = UpstreamOf(s).sent[i]
    /\ \A i \in 1..Len(clientRecv[s]) :
         /\ wsData[s].deepgramWs # 0
         /\ \E j \in 1..Len(upstreamLog[wsData[s].deepgramWs]) :
              upstreamLog[wsData[s].deepgramWs][j].frame = clientRecv[s][i]

\* C20: the sessions are isolated: an event of one session (a client message,
\* an upstream message, an upstream error, an upstream close, a client close)
\* leaves the state, the client channel, the upstream channel and the
\* registry entry of every other session as they were, and a frame of one
\* session's client or upstream is never put on a channel of another, in
\* whatever order the sessions' events come.
C20_SessionsIsolated == [](C20_OwnFramesOnly) /\ [][C20_OneSessionStep]_vars

\* Two sessions relay at once: the upstream of one was sent its client's
\* frame and the client of the other was sent its upstream's frame, and
\* nothing else is on any channel.
C20_Witness ==
  \E a, b \in Sessions :
    /\ a # b
    /\ SessionState(a) = "ACTIVE"
    /\ SessionState(b) = "ACTIVE"
    /\ UpstreamOf(a).sent = <<"f1">>
    /\ clientRecv[a] = <<>>
    /\ UpstreamOf(b).sent = <<>>
    /\ clientRecv[b] = <<"f2">>

====
